---- MODULE Spec2Model ----
(***************************************************************************)
(* Model of covid_expert_system.py: the CovidExpertSystem window, its      *)
(* constructor (rule loading through a temporary file), the four checkbox  *)
(* variables, and run_diagnosis, which drives a CLIPS environment holding  *)
(* the three rules of KNOWLEDGE_BASE.                                      *)
(*                                                                         *)
(* The engine is modelled by its working memory (the fact list, in         *)
(* assertion order) and its agenda (the set of activations).  All three    *)
(* rules have the default salience 0 and are activated by the same         *)
(* asserted patient fact.  The engine keeps its default conflict           *)
(* resolution strategy, which breaks such ties in a fixed, repeatable      *)
(* order set when the rules are built into the engine.  The knowledge      *)
(* base does not say which order that is, so the order is a value chosen   *)
(* once, when the rules are loaded, and used unchanged by every run.       *)
(***************************************************************************)
EXTENDS Naturals, Sequences, FiniteSets

VARIABLES pc,                 \* position of the program
          exc,                \* exception in flight in the constructor
          temp_file_path,     \* local temp_file_path of __init__
          file_exists,        \* whether the temporary .clp file is on disk
          rules_loaded,       \* whether env.load has defined the rules
          fever_var, cough_var, loss_of_smell_var, contact_var,
          result_var,         \* the tk.StringVar shown in the result label
          env,                \* CLIPS environment: [facts, agenda]
          strategy,           \* the engine's fixed order among the three rules
          fact_string,        \* the patient fact built by run_diagnosis
          fired,              \* rules fired by the current env.run(), in order
          prev                \* some diagnosis completed before the current one

vars == <<pc, exc, temp_file_path, file_exists, rules_loaded,
          fever_var, cough_var, loss_of_smell_var, contact_var,
          result_var, env, strategy, fact_string, fired, prev>>

uivars == <<fever_var, cough_var, loss_of_smell_var, contact_var>>

(***************************************************************************)
(* Texts of the program.                                                   *)
(***************************************************************************)
HighMsg == "Diagnosis: High Risk for COVID-19. Please get tested immediately and isolate."

ModerateMsg == "Diagnosis: Moderate Risk for COVID-19. Monitor symptoms closely and consider testing."

LowMsg == "Diagnosis: Low Risk. Symptoms may be due to other causes. Monitor your health."

InitialText == "Diagnosis will appear here."

FallbackText == "Could not determine diagnosis."

FatalText == "FATAL ERROR: Failed to load rules: ..."

\* An attribute of self that has not been assigned yet.
Unset == "<unset>"

Rules == {"rule-1-high-risk", "rule-2-moderate-risk", "rule-3-low-risk"}

\* The orders in which an engine can rank the three rules: the sequences
\* that hold every rule once, first on the agenda first.
StrategyOrders ==
    {s \in [1..Cardinality(Rules) -> Rules] :
        \A i, j \in 1..Cardinality(Rules) : s[i] = s[j] => i = j}

(***************************************************************************)
(* Facts.                                                                  *)
(***************************************************************************)
NoFact == [template |-> "none"]

PatientFact(fever, cough, loss_of_smell, contact) ==
    [template |-> "patient", fever |-> fever, cough |-> cough,
     loss_of_smell |-> loss_of_smell, contact_with_patient |-> contact]

ResultFact(message) == [template |-> "result", message |-> message]

Range(s) == {s[i] : i \in 1..Len(s)}

Patients(facts) == {f \in Range(facts) : f.template = "patient"}

Results(facts) == {f \in Range(facts) : f.template = "result"}

(***************************************************************************)
(* The three defrules: pattern on the patient fact, (not (result)) guard,  *)
(* and the message asserted by the right-hand side.                        *)
(***************************************************************************)
\* Variant: rule 2 written without its contact-with-patient constraint.
MatchesPatient_NoContact(rule, f) ==
    CASE rule = "rule-1-high-risk" ->
            f.fever = "yes" /\ f.loss_of_smell = "yes"
      [] rule = "rule-2-moderate-risk" ->
            f.fever = "yes" /\ f.cough = "yes"
      [] rule = "rule-3-low-risk" -> TRUE

MatchesPatient(rule, f) ==
    CASE rule = "rule-1-high-risk" ->
            f.fever = "yes" /\ f.loss_of_smell = "yes"
      [] rule = "rule-2-moderate-risk" ->
            f.fever = "yes" /\ f.cough = "yes" /\ f.contact_with_patient = "yes"
      [] rule = "rule-3-low-risk" -> TRUE

HasNotResult(rule) == rule \in {"rule-2-moderate-risk", "rule-3-low-risk"}

RuleMessage(rule) ==
    CASE rule = "rule-1-high-risk" -> HighMsg
      [] rule = "rule-2-moderate-risk" -> ModerateMsg
      [] rule = "rule-3-low-risk" -> LowMsg

\* An activation <<rule, f>> is supported by the working memory.
Satisfied(act, facts) ==
    /\ act[2] \in Patients(facts)
    /\ MatchesPatient(act[1], act[2])
    /\ HasNotResult(act[1]) => Results(facts) = {}

(***************************************************************************)
(* Engine operations used by the program.                                  *)
(***************************************************************************)
\* Variant: a reset that clears the agenda but keeps the facts.
Reset_KeepFacts(e) == [facts |-> e.facts, agenda |-> {}]

\* env.reset(): every fact and every activation is removed.
Reset(e) == [facts |-> <<>>, agenda |-> {}]

\* Assertion of a fact: a duplicate is not asserted again; otherwise the
\* fact is appended, activations that lost a (not (result)) support leave
\* the agenda and the rules the new fact matches are activated.
AssertFact(e, f) ==
    IF f \in Range(e.facts) THEN e
    ELSE LET facts == Append(e.facts, f)
             kept == {a \in e.agenda : Satisfied(a, facts)}
             new  == IF f.template = "patient"
                     THEN {a \in Rules \X {f} : Satisfied(a, facts)}
                     ELSE {}
         IN  [facts |-> facts, agenda |-> kept \cup new]

\* One firing: the activation leaves the agenda and its action is executed.
FireActivation(e, act) ==
    AssertFact([facts |-> e.facts, agenda |-> e.agenda \ {act}],
               ResultFact(RuleMessage(act[1])))

\* Rank of a rule in the engine's order (1 is fired first).
Pos(rule, strat) == CHOOSE i \in 1..Len(strat) : strat[i] = rule

\* The activations at the top of the agenda.
Top(agenda, strat) ==
    {a \in agenda : \A b \in agenda : Pos(a[1], strat) <= Pos(b[1], strat)}

\* env.run(): fire the top activation until the agenda is empty.
RECURSIVE RunEngine(_, _)
RunEngine(e, strat) ==
    IF e.agenda = {} THEN e
    ELSE RunEngine(FireActivation(e, CHOOSE a \in Top(e.agenda, strat) : TRUE),
                   strat)

\* Variant: the loop compares the template name with a misspelt name.
RECURSIVE ScanFacts_WrongTemplate(_, _)
ScanFacts_WrongTemplate(facts, i) ==
    IF i > Len(facts) THEN FallbackText
    ELSE IF facts[i].template = "results" THEN facts[i].message
    ELSE ScanFacts_WrongTemplate(facts, i + 1)

\* The loop over env.facts(): message of the first result fact, else fallback.
RECURSIVE ScanFacts(_, _)
ScanFacts(facts, i) ==
    IF i > Len(facts) THEN FallbackText
    ELSE IF facts[i].template = "result" THEN facts[i].message
    ELSE ScanFacts(facts, i + 1)

\* run_diagnosis as a whole on an environment that holds no fact: the
\* message it displays for the patient fact f.
Diagnose(f, strat) ==
    ScanFacts(RunEngine(AssertFact(Reset([facts |-> <<>>, agenda |-> {}]), f),
                        strat).facts, 1)

(***************************************************************************)
(* Constructor: rule loading.                                              *)
(***************************************************************************)
Init ==
    /\ pc = "create_temp"
    /\ exc = "none"
    /\ temp_file_path = "None"
    /\ file_exists = FALSE
    /\ rules_loaded = FALSE
    /\ fever_var = Unset
    /\ cough_var = Unset
    /\ loss_of_smell_var = Unset
    /\ contact_var = Unset
    /\ result_var = Unset
    /\ env = [facts |-> <<>>, agenda |-> {}]
    /\ strategy = <<>>
    /\ fact_string = NoFact
    /\ fired = <<>>
    /\ prev = [fact |-> NoFact, message |-> Unset]

\* tempfile.NamedTemporaryFile(delete=False, ...)
CreateTemp ==
    /\ pc = "create_temp"
    /\ \E ok \in BOOLEAN :
          IF ok THEN /\ file_exists' = TRUE
                     /\ pc' = "write"
                     /\ exc' = exc
                ELSE /\ file_exists' = file_exists
                     /\ pc' = "except"
                     /\ exc' = "OSError"
    /\ UNCHANGED <<temp_file_path, rules_loaded, uivars, result_var, env,
                   strategy, fact_string, fired, prev>>

\* temp_file.write(KNOWLEDGE_BASE); temp_file_path = temp_file.name
WriteRules ==
    /\ pc = "write"
    /\ \E ok \in BOOLEAN :
          IF ok THEN /\ temp_file_path' = "name"
                     /\ pc' = "close"
                     /\ exc' = exc
                ELSE /\ temp_file_path' = temp_file_path
                     /\ pc' = "except"
                     /\ exc' = "OSError"
    /\ UNCHANGED <<file_exists, rules_loaded, uivars, result_var, env,
                   strategy, fact_string, fired, prev>>

\* leaving the with block flushes and closes the file
CloseTemp ==
    /\ pc = "close"
    /\ \E ok \in BOOLEAN :
          IF ok THEN pc' = "load" /\ exc' = exc
                ELSE pc' = "except" /\ exc' = "OSError"
    /\ UNCHANGED <<temp_file_path, file_exists, rules_loaded, uivars,
                   result_var, env, strategy, fact_string, fired, prev>>

\* self.env.load(temp_file_path): the rules are built into the engine,
\* which settles the order it will give them whenever they tie.
LoadRules ==
    /\ pc = "load"
    /\ \E ok \in BOOLEAN :
          IF ok THEN /\ rules_loaded' = TRUE
                     /\ strategy' \in StrategyOrders
                     /\ pc' = "finally"
                     /\ exc' = exc
                ELSE /\ rules_loaded' = rules_loaded
                     /\ strategy' = strategy
                     /\ pc' = "except"
                     /\ exc' = "CLIPSError"
    /\ UNCHANGED <<temp_file_path, file_exists, uivars, result_var, env,
                   fact_string, fired, prev>>

\* except Exception as e: print(...); self.result_var.set(...)
\* self.result_var is assigned only later, with the other UI variables.
ExceptHandler ==
    /\ pc = "except"
    /\ IF result_var = Unset
       THEN exc' = "AttributeError" /\ result_var' = result_var
       ELSE exc' = "none" /\ result_var' = FatalText
    /\ pc' = "finally"
    /\ UNCHANGED <<temp_file_path, file_exists, rules_loaded, uivars, env,
                   strategy, fact_string, fired, prev>>

\* finally: if temp_file_path and os.path.exists(...): os.remove(...)
\* then a pending exception leaves __init__ and main().
Finally ==
    /\ pc = "finally"
    /\ file_exists' = IF temp_file_path # "None" /\ file_exists
                      THEN FALSE ELSE file_exists
    /\ pc' = IF exc # "none" THEN "crashed" ELSE "build_ui"
    /\ UNCHANGED <<exc, temp_file_path, rules_loaded, uivars, result_var,
                   env, strategy, fact_string, fired, prev>>

\* Style, frame, UI variables and widgets; then root.mainloop().
BuildUI ==
    /\ pc = "build_ui"
    /\ fever_var' = "no"
    /\ cough_var' = "no"
    /\ loss_of_smell_var' = "no"
    /\ contact_var' = "no"
    /\ result_var' = InitialText
    /\ pc' = "idle"
    /\ UNCHANGED <<exc, temp_file_path, file_exists, rules_loaded, env,
                   strategy, fact_string, fired, prev>>

(***************************************************************************)
(* Event loop: checkbox clicks and the Get Diagnosis button.               *)
(***************************************************************************)
Flip(v) == IF v = "yes" THEN "no" ELSE "yes"

\* Variant: a click on a checkbox also clears the displayed result.
Toggle_ClearResult(box) ==
    /\ pc = "idle"
    /\ fever_var' = IF box = "fever" THEN Flip(fever_var) ELSE fever_var
    /\ cough_var' = IF box = "cough" THEN Flip(cough_var) ELSE cough_var
    /\ loss_of_smell_var' = IF box = "smell" THEN Flip(loss_of_smell_var)
                            ELSE loss_of_smell_var
    /\ contact_var' = IF box = "contact" THEN Flip(contact_var)
                      ELSE contact_var
    /\ result_var' = InitialText
    /\ UNCHANGED <<pc, exc, temp_file_path, file_exists, rules_loaded,
                   env, strategy, fact_string, fired, prev>>

\* A click on one Checkbutton (onvalue "yes", offvalue "no").
Toggle(box) ==
    /\ pc = "idle"
    /\ fever_var' = IF box = "fever" THEN Flip(fever_var) ELSE fever_var
    /\ cough_var' = IF box = "cough" THEN Flip(cough_var) ELSE cough_var
    /\ loss_of_smell_var' = IF box = "smell" THEN Flip(loss_of_smell_var)
                            ELSE loss_of_smell_var
    /\ contact_var' = IF box = "contact" THEN Flip(contact_var)
                      ELSE contact_var
    /\ UNCHANGED <<pc, exc, temp_file_path, file_exists, rules_loaded,
                   result_var, env, strategy, fact_string, fired, prev>>

Boxes == {"fever", "cough", "smell", "contact"}

\* run_diagnosis, steps 1-3: reset, read the UI, assert the patient fact.
\* env.run() starts with the agenda this leaves.
StartDiagnosis ==
    /\ pc = "idle"
    /\ LET f == PatientFact(fever_var, cough_var, loss_of_smell_var,
                            contact_var)
       IN  /\ fact_string' = f
           /\ env' = AssertFact(Reset(env), f)
    /\ fired' = <<>>
    /\ prev' \in IF env.facts = <<>> THEN {prev}
                 ELSE {prev, [fact |-> fact_string, message |-> result_var]}
    /\ pc' = "running"
    /\ UNCHANGED <<exc, temp_file_path, file_exists, rules_loaded, uivars,
                   result_var, strategy>>

\* Variant: an engine that picks at random among tied activations.
Fire_Random ==
    /\ pc = "running"
    /\ \E act \in env.agenda :
          /\ env' = FireActivation(env, act)
          /\ fired' = Append(fired, act[1])
    /\ UNCHANGED <<pc, exc, temp_file_path, file_exists, rules_loaded,
                   uivars, result_var, strategy, fact_string, prev>>

\* run_diagnosis, step 4: env.run() fires activations until the agenda is
\* empty.  The activations all have salience 0 and stem from one asserted
\* fact; the engine fires the one its fixed order puts on top.
Fire ==
    /\ pc = "running"
    /\ \E act \in Top(env.agenda, strategy) :
          /\ env' = FireActivation(env, act)
          /\ fired' = Append(fired, act[1])
    /\ UNCHANGED <<pc, exc, temp_file_path, file_exists, rules_loaded,
                   uivars, result_var, strategy, fact_string, prev>>

\* run_diagnosis, step 5: display the first result fact, or the fallback.
Display ==
    /\ pc = "running"
    /\ env.agenda = {}
    /\ result_var' = ScanFacts(env.facts, 1)
    /\ pc' = "idle"
    /\ UNCHANGED <<exc, temp_file_path, file_exists, rules_loaded, uivars,
                   env, strategy, fact_string, fired, prev>>

Next ==
    \/ CreateTemp
    \/ WriteRules
    \/ CloseTemp
    \/ LoadRules
    \/ ExceptHandler
    \/ Finally
    \/ BuildUI
    \/ \E box \in Boxes : Toggle(box)
    \/ StartDiagnosis
    \/ Fire
    \/ Display

Spec == Init /\ [][Next]_vars

(***************************************************************************)
(* Properties.                                                             *)
(***************************************************************************)
\* A diagnosis has been completed and its message is on display.
Displayed == pc = "idle" /\ fact_string # NoFact

\* env.run() has reached quiescence.
Quiescent == pc = "running" /\ env.agenda = {}

RiskMessages == {HighMsg, ModerateMsg, LowMsg}

HighCase(f) == f.fever = "yes" /\ f.loss_of_smell = "yes"

ModerateCase(f) ==
    f.fever = "yes" /\ f.cough = "yes" /\ f.contact_with_patient = "yes"

CurrentFact ==
    PatientFact(fever_var, cough_var, loss_of_smell_var, contact_var)

\* C3: when neither the high-risk nor the moderate-risk condition holds
\* for the diagnosed patient, the low-risk message is displayed; and the
\* window is built with its four checkbox variables at "no", so that a
\* press on the fresh window diagnoses the all-"no" patient.
C3_LowWhenNoOtherRule ==
    /\ [](Displayed /\ ~HighCase(fact_string) /\ ~ModerateCase(fact_string)
            => result_var = LowMsg)
    /\ [][pc = "build_ui" => CurrentFact' = PatientFact("no", "no", "no", "no")]_vars

C3_Witness ==
    /\ Displayed
    /\ prev.fact = NoFact
    /\ fact_string = PatientFact("no", "no", "no", "no")
    /\ result_var = LowMsg

\* C4: once the rules are loaded, every completed diagnosis displays one
\* of the three risk messages, never the fallback text, because at
\* quiescence the working memory always holds at least one result fact.
C4_AlwaysARiskMessage ==
    /\ Displayed => (rules_loaded /\ result_var \in RiskMessages
                                  /\ result_var # FallbackText)
    /\ Quiescent => Results(env.facts) # {}

C4_Witness == Displayed /\ result_var = ModerateMsg

C7_NoRetainedState ==
    /\ (pc = "running" /\ fired = <<>>) =>
          /\ fact_string = CurrentFact
          /\ env.facts = <<fact_string>>
          /\ Results(env.facts) = {}
          /\ env.agenda = {a \in Rules \X {fact_string} :
                              MatchesPatient(a[1], a[2])}
    /\ (pc = "running" \/ Displayed) =>
          /\ Patients(env.facts) = {fact_string}
          /\ \A r \in Results(env.facts) :
                \E i \in 1..Len(fired) : r.message = RuleMessage(fired[i])
    /\ Displayed => result_var = Diagnose(fact_string, strategy)

C7_Witness ==
    /\ Displayed
    /\ prev.fact # NoFact
    /\ prev.fact # fact_string
    /\ prev.message = HighMsg
    /\ fact_string.fever = "no"
    /\ result_var = LowMsg

\* C8: when writing or loading the rule file raises, the constructor
\* catches the exception, shows the FATAL ERROR text in result_var and
\* goes on to build the window; no exception leaves the constructor.
C8_LoadErrorShownInUI ==
    /\ pc # "crashed"
    /\ (pc \in {"finally", "build_ui"} /\ ~rules_loaded)
          => (exc = "none" /\ result_var = FatalText)

\* C9: on every path out of the try/except/finally block the temporary
\* rule file has been removed from disk.
C9_TempFileRemoved ==
    pc \in {"build_ui", "idle", "running", "crashed"} => ~file_exists

\* C10: result_var holds the initial text until the first press; a change
\* of a checkbox variable leaves result_var and the working memory as
\* they are; result_var changes only while the window is built or a
\* diagnosis is displayed; and the message on display is the first result
\* of the working memory of the most recent press, whose patient fact
\* holds the checkbox values read at that press.
C10_OnlyPressChangesResult ==
    /\ []((pc = "idle" /\ fact_string = NoFact) => result_var = InitialText)
    /\ [][uivars' # uivars /\ pc = "idle" => UNCHANGED <<result_var, env>>]_vars
    /\ [][result_var' # result_var => pc \in {"build_ui", "running"}]_vars
    /\ [](Displayed => /\ env.facts[1] = fact_string
                       /\ result_var = ScanFacts(env.facts, 1))

C10_Witness ==
    /\ Displayed
    /\ fact_string # CurrentFact
    /\ HighCase(fact_string)
    /\ fever_var = "no"
    /\ result_var = HighMsg

TypeOK ==
    /\ pc \in {"create_temp", "write", "close", "load", "except", "finally",
               "build_ui", "idle", "running", "crashed"}
    /\ result_var \in {Unset, InitialText, FallbackText, FatalText,
                       HighMsg, ModerateMsg, LowMsg}
    /\ Len(fired) <= 3
    /\ strategy \in StrategyOrders \cup {<<>>}
====
